---- MODULE Spec2Model ----
(***************************************************************************)
(* Feedback Management API (main_app.py): an in-memory dict of Feedback    *)
(* records keyed by UUID, served by five FastAPI coroutine handlers.       *)
(*                                                                         *)
(* Text values are TLA+ strings.  A JSON/pydantic field value is a record  *)
(* [tag, val]: Str(s) is the string s, None is JSON null / Python None,    *)
(* Unset is a key that the request body does not carry.                    *)
(*                                                                         *)
(* Requests arrive concurrently.  FastAPI validates the body against the   *)
(* declared pydantic model before it calls the handler.  Every handler is  *)
(* an `async def` without any await, so once the event loop has entered a  *)
(* handler no other handler runs until it returns: the handlers with an    *)
(* existence check are modelled as two steps (the check, then the dict     *)
(* access) under that scheduling rule.                                     *)
(***************************************************************************)
EXTENDS Integers, Sequences, FiniteSets, Bags, TLC

VARIABLES feedbacks_db, issued, pending, running, last, served

vars == <<feedbacks_db, issued, pending, running, last, served>>

-----------------------------------------------------------------------------
(* Bounds of the model *)

MaxRequests == 2
MaxTargetSeeds == 1

(* Program constants *)

NumSeeds == 10
MinContentLen == 1
MaxContentLen == 1000

HTTP_200_OK == 200
HTTP_201_CREATED == 201
HTTP_204_NO_CONTENT == 204
HTTP_400_BAD_REQUEST == 400
HTTP_404_NOT_FOUND == 404
HTTP_422_UNPROCESSABLE == 422
HTTP_500_INTERNAL == 500

-----------------------------------------------------------------------------
(* Field values *)

Str(s) == [tag |-> "str", val |-> s]
None == [tag |-> "None", val |-> ""]
Unset == [tag |-> "Unset", val |-> ""]

RECURSIVE Repeat(_, _)
Repeat(s, n) ==
    IF n = 0 THEN ""
    ELSE IF n % 2 = 0 THEN LET h == Repeat(s, n \div 2) IN h \o h
    ELSE s \o Repeat(s, n - 1)

-----------------------------------------------------------------------------
(* Identifiers.  The seeds take 1..NumSeeds; every later uuid4() draw comes *)
(* from the rest of the pool.                                              *)

SeedIds == 1..NumSeeds
UUIDs == 1..(NumSeeds + MaxRequests)

(* uuid4(): the values a draw can return.  A 122-bit random draw repeats an *)
(* earlier one with probability about 2^-122; the generator is modelled as *)
(* never repeating, with `issued` the draws made so far.                   *)
uuid4_any == UUIDs

uuid4 == UUIDs \ issued

-----------------------------------------------------------------------------
(* Field constraints *)

(* Field(..., min_length=1, max_length=1000) on a str *)
content_ok_max999(s) == Len(s) >= MinContentLen /\ Len(s) < MaxContentLen

content_ok(s) == Len(s) >= MinContentLen /\ Len(s) <= MaxContentLen

Chars(s) == {SubSeq(s, i, i) : i \in 1..Len(s)}

AtPositions(s) == {i \in 1..Len(s) : SubSeq(s, i, i) = "@"}

(* EmailStr: the address syntax accepted by the email validator behind     *)
(* pydantic's EmailStr, to the extent the inputs exercise it: exactly one  *)
(* "@", a non-empty local part, a domain of at least two non-empty         *)
(* dot-separated labels, and no blank.                                     *)
email_ok(s) ==
    /\ Cardinality(AtPositions(s)) = 1
    /\ " " \notin Chars(s)
    /\ LET at == CHOOSE i \in AtPositions(s) : TRUE
           dots == {i \in (at + 1)..Len(s) : SubSeq(s, i, i) = "."}
       IN /\ at > 1
          /\ dots # {}
          /\ \A d \in dots : d > at + 1 /\ d < Len(s) /\ (d + 1) \notin dots
          /\ SubSeq(s, 1, 1) # "."
          /\ SubSeq(s, at - 1, at - 1) # "."

Upper == <<"A", "B", "C", "D", "E", "F", "G", "H", "I", "J", "K", "L", "M",
           "N", "O", "P", "Q", "R", "S", "T", "U", "V", "W", "X", "Y", "Z">>
Lower == <<"a", "b", "c", "d", "e", "f", "g", "h", "i", "j", "k", "l", "m",
           "n", "o", "p", "q", "r", "s", "t", "u", "v", "w", "x", "y", "z">>

lower_char(c) ==
    IF \E i \in 1..Len(Upper) : Upper[i] = c
    THEN Lower[CHOOSE i \in 1..Len(Upper) : Upper[i] = c]
    ELSE c

RECURSIVE lower(_)
lower(s) == IF Len(s) = 0 THEN "" ELSE lower_char(SubSeq(s, 1, 1)) \o lower(Tail(s))

(* The value EmailStr validation returns: the address with its domain      *)
(* lower-cased (the local part is kept as written).                        *)
email_normalized(s) ==
    LET at == CHOOSE i \in AtPositions(s) : TRUE
    IN SubSeq(s, 1, at) \o lower(SubSeq(s, at + 1, Len(s)))

-----------------------------------------------------------------------------
(* Pydantic models *)

FieldNames == {"feedback_content", "email_address"}

(* A JSON request body: the two declared keys, and the key "uuid", which   *)
(* no request model declares (uuid = {} when the body does not carry it). *)
Body(c, e, u) == [feedback_content |-> c, email_address |-> e, uuid |-> u]

NoBody == Body(Unset, Unset, {})

normalized(e) == IF e.tag = "str" /\ email_ok(e.val) THEN Str(email_normalized(e.val)) ELSE e

(* FeedbackBase / FeedbackCreate: both fields required, a str each *)
FeedbackCreate_ok(body) ==
    /\ body.feedback_content.tag = "str" /\ content_ok(body.feedback_content.val)
    /\ body.email_address.tag = "str" /\ email_ok(body.email_address.val)

(* FeedbackUpdate: Optional fields with default None: a key may be absent  *)
(* or null; a string is held to the constraints of the field.              *)
FeedbackUpdate_ok(body) ==
    /\ body.feedback_content.tag = "str" => content_ok(body.feedback_content.val)
    /\ body.email_address.tag = "str" => email_ok(body.email_address.val)

(* The validated model instance: the declared fields as validated; a key   *)
(* the model does not declare is ignored (pydantic's default extra).       *)
parsed_allow_extra(body) ==
    Body(body.feedback_content, normalized(body.email_address), body.uuid)

parsed(body) ==
    Body(body.feedback_content, normalized(body.email_address), {})

(* feedback_update.model_dump(exclude_unset=True): the keys the request    *)
(* set, null included, with their values.                                  *)
dump_value(m, k) ==
    IF k = "uuid" THEN CHOOSE u \in m.uuid : TRUE
    ELSE IF m[k].tag = "Unset" THEN None ELSE m[k]

model_dump_all(m) ==
    [k \in FieldNames \cup (IF m.uuid = {} THEN {} ELSE {"uuid"}) |-> dump_value(m, k)]

model_dump_exclude_unset(m) ==
    [k \in {f \in FieldNames : m[f].tag # "Unset"}
           \cup (IF m.uuid = {} THEN {} ELSE {"uuid"}) |-> dump_value(m, k)]

(* Feedback(uuid=..., feedback_content=..., email_address=...) *)
Feedback(id, c, e) == [uuid |-> id, feedback_content |-> c, email_address |-> normalized(e)]

model_copy_update_only(stored, update) ==
    [k \in DOMAIN stored |->
        IF k \in DOMAIN update THEN update[k] ELSE IF k = "uuid" THEN stored[k] ELSE None]

(* stored_feedback.model_copy(update=update_data): a copy whose fields are *)
(* overwritten by the update, without validation.                          *)
model_copy(stored, update) ==
    [k \in DOMAIN stored |-> IF k \in DOMAIN update THEN update[k] ELSE stored[k]]

-----------------------------------------------------------------------------
(* The dict feedbacks_db *)

Put(db, id, rec) == [i \in DOMAIN db \cup {id} |-> IF i = id THEN rec ELSE db[i]]

Del(db, id) == [i \in DOMAIN db \ {id} |-> db[i]]

(* dummy_feedbacks *)
dummy_feedbacks == <<
    [feedback_content |-> "Excellent service! Very satisfied with the product quality.", email_address |-> "john.doe@example.com"],
    [feedback_content |-> "Fast delivery and great customer support. Highly recommend!", email_address |-> "sarah.smith@example.com"],
    [feedback_content |-> "The product met my expectations. Good value for money.", email_address |-> "mike.johnson@example.com"],
    [feedback_content |-> "Outstanding experience! Will definitely order again.", email_address |-> "emily.brown@example.com"],
    [feedback_content |-> "Good quality but shipping took longer than expected.", email_address |-> "david.wilson@example.com"],
    [feedback_content |-> "Amazing customer service team. They resolved my issue quickly.", email_address |-> "lisa.garcia@example.com"],
    [feedback_content |-> "Product works as described. Very happy with my purchase.", email_address |-> "robert.martinez@example.com"],
    [feedback_content |-> "Great experience overall. The website is easy to navigate.", email_address |-> "jennifer.davis@example.com"],
    [feedback_content |-> "Impressed with the quality and attention to detail.", email_address |-> "william.rodriguez@example.com"],
    [feedback_content |-> "Fantastic product! Exceeded my expectations in every way.", email_address |-> "amanda.miller@example.com"] >>

initialize_dummy_data ==
    [i \in SeedIds |-> Feedback(i, Str(dummy_feedbacks[i].feedback_content),
                                   Str(dummy_feedbacks[i].email_address))]

-----------------------------------------------------------------------------
(* Requests *)

(* The bodies the model sends.  POST: a valid body with a short content, *)
(* one with a content of exactly MaxContentLen characters (the email of    *)
(* both is one that validation rewrites), and bodies with a null, empty or *)
(* overlong content or a malformed email.                                  *)
PostBodies ==
    {Body(c, Str("User@Example.COM"), {}) :
        c \in {None, Str(""), Str("Great!"), Str(Repeat("x", MaxContentLen)),
               Str(Repeat("x", MaxContentLen + 1))}}
    \cup {Body(Str("Great!"), Str("not-an-email"), {})}

(* PUT: the empty body; either field alone as a valid value, as null and   *)
(* as an invalid value; both fields; and bodies that also carry a "uuid"   *)
(* key naming another record.                                              *)
PutBodies ==
    {Body(c, Unset, {}) : c \in {Unset, None, Str("Updated"), Str(Repeat("x", MaxContentLen + 1))}}
    \cup {Body(Unset, e, {}) : e \in {None, Str("New@Mail.ORG"), Str("not-an-email")}}
    \cup {Body(Str("Updated"), Str("New@Mail.ORG"), {})}
    \cup {Body(c, Unset, {NumSeeds}) : c \in {Unset, Str("Updated")}}

(* The ids requests name: some seeds and every id a Create can draw *)
TargetIds == (1..MaxTargetSeeds) \cup (UUIDs \ SeedIds)

Request(op, id, body, model) == [op |-> op, uuid |-> id, body |-> body, model |-> model]

NoReq == Request("none", 0, NoBody, NoBody)

Response(r, status, body) == [req |-> r, status |-> status, body |-> body]

-----------------------------------------------------------------------------
(* Scheduling.  `pending` is the bag of validated requests whose handler   *)
(* has not started; `running` is the bag of requests whose handler stands  *)
(* between its existence check and the dict access that follows it.  The   *)
(* handlers are coroutines without an await: the event loop enters a       *)
(* handler only when no other handler is under way.                        *)

always_enterable == TRUE

event_loop_idle == running = EmptyBag

Take(bag, r) == bag (-) SetToBag({r})

Give(bag, r) == bag (+) SetToBag({r})

Waiting(op) == {r \in BagToSet(pending) : r.op = op}

Running(op) == {r \in BagToSet(running) : r.op = op}

-----------------------------------------------------------------------------
Init ==
    /\ feedbacks_db = initialize_dummy_data
    /\ issued = SeedIds
    /\ pending = EmptyBag
    /\ running = EmptyBag
    /\ last = Response(NoReq, 0, {})
    /\ served = 0

(* A request arrives and is routed; FastAPI validates the body against the *)
(* handler's parameter model and answers 422 without calling the handler   *)
(* when validation fails.                                                  *)
Arrive(r, ok) ==
    /\ served' = served + 1
    /\ UNCHANGED <<feedbacks_db, issued, running>>
    /\ IF ok
       THEN /\ pending' = Give(pending, r)
            /\ UNCHANGED last
       ELSE /\ last' = Response(r, HTTP_422_UNPROCESSABLE, {})
            /\ UNCHANGED pending

ReceivePost ==
    /\ served < MaxRequests
    /\ \E body \in PostBodies :
        LET ok == FeedbackCreate_ok(body)
        IN Arrive(Request("POST", 0, body, IF ok THEN parsed(body) ELSE NoBody), ok)

ReceiveList ==
    /\ served < MaxRequests
    /\ Arrive(Request("LIST", 0, NoBody, NoBody), TRUE)

ReceiveGet ==
    /\ served < MaxRequests
    /\ \E id \in TargetIds : Arrive(Request("GET", id, NoBody, NoBody), TRUE)

ReceivePut ==
    /\ served < MaxRequests
    /\ \E id \in TargetIds, body \in PutBodies :
        LET ok == FeedbackUpdate_ok(body)
        IN Arrive(Request("PUT", id, body, IF ok THEN parsed(body) ELSE NoBody), ok)

ReceiveDelete ==
    /\ served < MaxRequests
    /\ \E id \in TargetIds : Arrive(Request("DELETE", id, NoBody, NoBody), TRUE)

-----------------------------------------------------------------------------
(* create_feedback *)

create_feedback_store_other_key(db, feedback_uuid, new_feedback) ==
    LET others == UUIDs \ (DOMAIN db \cup {feedback_uuid})
    IN Put(db, IF others = {} THEN feedback_uuid ELSE CHOOSE o \in others : TRUE, new_feedback)

create_feedback_store(db, feedback_uuid, new_feedback) == Put(db, feedback_uuid, new_feedback)

create_feedback ==
    /\ event_loop_idle
    /\ \E r \in Waiting("POST"), feedback_uuid \in uuid4 :
        LET new_feedback == Feedback(feedback_uuid, r.model.feedback_content,
                                     r.model.email_address)
        IN /\ feedbacks_db' = create_feedback_store(feedbacks_db, feedback_uuid, new_feedback)
           /\ issued' = issued \cup {feedback_uuid}
           /\ pending' = Take(pending, r)
           /\ last' = Response(r, HTTP_201_CREATED, {new_feedback})
    /\ UNCHANGED <<running, served>>

(* get_all_feedbacks: the values of the dict (their order is not modelled) *)
get_all_feedbacks ==
    /\ event_loop_idle
    /\ \E r \in Waiting("LIST") :
        /\ pending' = Take(pending, r)
        /\ last' = Response(r, HTTP_200_OK, {feedbacks_db[i] : i \in DOMAIN feedbacks_db})
    /\ UNCHANGED <<feedbacks_db, issued, running, served>>

(* The existence check that opens get_feedback, update_feedback and        *)
(* delete_feedback: `if feedback_uuid not in feedbacks_db: raise 404`.     *)
not_found(db, feedback_uuid) == IF feedback_uuid \notin DOMAIN db THEN HTTP_404_NOT_FOUND ELSE 0

(* The handler of r starts and raises with `status`, or (status 0) goes on *)
Enter(r, status) ==
    /\ event_loop_idle
    /\ pending' = Take(pending, r)
    /\ IF status = 0
       THEN /\ running' = Give(running, r)
            /\ UNCHANGED last
       ELSE /\ last' = Response(r, status, {})
            /\ UNCHANGED running
    /\ UNCHANGED <<feedbacks_db, issued, served>>

(* get_feedback *)
get_feedback_check == \E r \in Waiting("GET") : Enter(r, not_found(feedbacks_db, r.uuid))

(* feedbacks_db[feedback_uuid] on a missing key is a KeyError, which       *)
(* reaches the client as a 500.                                            *)
get_feedback_return ==
    /\ \E r \in Running("GET") :
        /\ running' = Take(running, r)
        /\ IF r.uuid \in DOMAIN feedbacks_db
           THEN last' = Response(r, HTTP_200_OK, {feedbacks_db[r.uuid]})
           ELSE last' = Response(r, HTTP_500_INTERNAL, {})
    /\ UNCHANGED <<feedbacks_db, issued, pending, served>>

(* update_feedback, lines 154-158 *)
update_feedback_head_empty_first(db, feedback_uuid, feedback_update) ==
    IF DOMAIN model_dump_exclude_unset(feedback_update) = {} THEN HTTP_400_BAD_REQUEST
    ELSE not_found(db, feedback_uuid)

update_feedback_head(db, feedback_uuid, feedback_update) == not_found(db, feedback_uuid)

update_feedback_check ==
    \E r \in Waiting("PUT") : Enter(r, update_feedback_head(feedbacks_db, r.uuid, r.model))

(* update_feedback, lines 160-171: what the rest of the handler leaves in  *)
(* the dict and answers.                                                   *)
Outcome(db, status, body) == [db |-> db, status |-> status, body |-> body]

update_feedback_tail_store_first(db, feedback_uuid, feedback_update) ==
    IF feedback_uuid \notin DOMAIN db THEN Outcome(db, HTTP_500_INTERNAL, {})
    ELSE LET updated_feedback == model_copy(db[feedback_uuid], model_dump_all(feedback_update))
             stored == Put(db, feedback_uuid, updated_feedback)
         IN IF DOMAIN model_dump_exclude_unset(feedback_update) = {}
            THEN Outcome(stored, HTTP_400_BAD_REQUEST, {})
            ELSE Outcome(stored, HTTP_200_OK, {updated_feedback})

update_feedback_tail(db, feedback_uuid, feedback_update) ==
    IF feedback_uuid \notin DOMAIN db THEN Outcome(db, HTTP_500_INTERNAL, {})
    ELSE LET stored_feedback == db[feedback_uuid]
             update_data == model_dump_exclude_unset(feedback_update)
             updated_feedback == model_copy(stored_feedback, update_data)
         IN IF DOMAIN update_data = {}
            THEN Outcome(db, HTTP_400_BAD_REQUEST, {})
            ELSE Outcome(Put(db, feedback_uuid, updated_feedback), HTTP_200_OK, {updated_feedback})

update_feedback_apply ==
    /\ \E r \in Running("PUT") :
        LET out == update_feedback_tail(feedbacks_db, r.uuid, r.model)
        IN /\ feedbacks_db' = out.db
           /\ running' = Take(running, r)
           /\ last' = Response(r, out.status, out.body)
    /\ UNCHANGED <<issued, pending, served>>

(* delete_feedback *)
delete_feedback_check == \E r \in Waiting("DELETE") : Enter(r, not_found(feedbacks_db, r.uuid))

delete_feedback_del ==
    /\ \E r \in Running("DELETE") :
        /\ running' = Take(running, r)
        /\ IF r.uuid \in DOMAIN feedbacks_db
           THEN /\ feedbacks_db' = Del(feedbacks_db, r.uuid)
                /\ last' = Response(r, HTTP_204_NO_CONTENT, {})
           ELSE /\ UNCHANGED feedbacks_db
                /\ last' = Response(r, HTTP_500_INTERNAL, {})
    /\ UNCHANGED <<issued, pending, served>>

-----------------------------------------------------------------------------
Next ==
    \/ ReceivePost
    \/ ReceiveList
    \/ ReceiveGet
    \/ ReceivePut
    \/ ReceiveDelete
    \/ create_feedback
    \/ get_all_feedbacks
    \/ get_feedback_check
    \/ get_feedback_return
    \/ update_feedback_check
    \/ update_feedback_apply
    \/ delete_feedback_check
    \/ delete_feedback_del

Spec == Init /\ [][Next]_vars

-----------------------------------------------------------------------------
(* Vocabulary of the properties *)

InFlight(p, r) == BagCardinality(p) + BagCardinality(r)

(* This step answers a request; last' is the answer *)
Responded ==
    \/ InFlight(pending', running') < InFlight(pending, running)
    \/ served' > served /\ InFlight(pending', running') = InFlight(pending, running)

(* This step is the start of the handler of the pending request r *)
Starts(r) == r \in BagToSet(pending) /\ pending' = Take(pending, r)

(* This step is the rest of the handler of r after its existence check *)
Resumes(r) == r \in BagToSet(running) /\ running' = Take(running, r)

Deleted == issued \ DOMAIN feedbacks_db

StoredValid(rec) ==
    /\ rec.feedback_content.tag = "str"
    /\ Len(rec.feedback_content.val) \in MinContentLen..MaxContentLen
    /\ rec.email_address.tag = "str"
    /\ email_ok(rec.email_address.val)

-----------------------------------------------------------------------------
(* C1: in every reachable state every stored record has a content of 1 to  *)
(* 1000 characters and a syntactically valid email, whatever Create,       *)
(* Update (null fields included) and Delete requests were made.            *)
C1_StoredRecordsValid == \A u \in DOMAIN feedbacks_db : StoredValid(feedbacks_db[u])

(* C2: a request that ends in an error (422, 404, 400, or any status from  *)
(* 400 up) mutates nothing: the store and the id generator are the same    *)
(* after the answering step as before it, and so are they after the        *)
(* existence check of a handler that goes on.                              *)
C2_ErrorsMutateNothing ==
    [][/\ Responded /\ last'.status >= HTTP_400_BAD_REQUEST
            => feedbacks_db' = feedbacks_db /\ issued' = issued
       /\ BagCardinality(running') > BagCardinality(running)
            => feedbacks_db' = feedbacks_db /\ issued' = issued]_vars

C2_Witness ==
    /\ last.status = HTTP_422_UNPROCESSABLE
    /\ last.req.op = "PUT"
    /\ feedbacks_db # initialize_dummy_data

(* C3: handlers are atomic on the shared dict: at most one handler stands  *)
(* between its existence check and its dict access, the key it checked is  *)
(* still there, no request ends in an unhandled KeyError (500), and a      *)
(* Delete answers 204 exactly when it removed a record that was there and  *)
(* 404 exactly when the id was absent.                                     *)
C3_HandlersAtomic ==
    /\ [](/\ BagCardinality(running) <= 1
          /\ \A r \in BagToSet(running) : r.uuid \in DOMAIN feedbacks_db
          /\ last.status # HTTP_500_INTERNAL)
    /\ [][Responded /\ last'.req.op = "DELETE" =>
            \/ /\ last'.status = HTTP_204_NO_CONTENT
               /\ last'.req.uuid \in DOMAIN feedbacks_db
               /\ feedbacks_db' = Del(feedbacks_db, last'.req.uuid)
            \/ /\ last'.status = HTTP_404_NOT_FOUND
               /\ last'.req.uuid \notin DOMAIN feedbacks_db
               /\ feedbacks_db' = feedbacks_db]_vars

(* Two Deletes of one id in flight at once: one past its check, one waiting *)
C3_Witness ==
    \E r \in BagToSet(running) :
        /\ r.op = "DELETE"
        /\ r \in BagToSet(pending)

(* C4: a Get answered right after a Create answered 201 (no other answer   *)
(* in between), on the id that Create returned, answers 200 with the very  *)
(* record Create returned, whose content and email are those of the        *)
(* request (the email as validated).                                       *)
C4_CreateThenGet ==
    [][/\ Responded
       /\ last'.req.op = "GET"
       /\ last.req.op = "POST"
       /\ last.status = HTTP_201_CREATED
       /\ \E rec \in last.body : rec.uuid = last'.req.uuid
       => /\ last'.status = HTTP_200_OK
          /\ last'.body = last.body
          /\ \A rec \in last'.body :
                /\ rec.uuid = last'.req.uuid
                /\ rec.feedback_content = last.req.body.feedback_content
                /\ rec.email_address = normalized(last.req.body.email_address)]_vars

C4_Witness ==
    /\ last.req.op = "GET"
    /\ last.status = HTTP_200_OK
    /\ last.req.uuid \notin SeedIds
    /\ \E rec \in last.body : rec.uuid = last.req.uuid /\ rec.feedback_content = Str("Great!")

(* C5: an Update of an existing id that supplies content X and omits email *)
(* sets the stored content to X, keeps that record's email and id, keeps   *)
(* every other record and the set of ids, and answers 200 with the record  *)
(* now stored.                                                             *)
C5_UpdateContentOnly ==
    [][\A r \in BagToSet(running) :
        /\ Resumes(r)
        /\ r.op = "PUT"
        /\ r.body.feedback_content.tag # "Unset"
        /\ r.body.email_address.tag = "Unset"
        => /\ r.uuid \in DOMAIN feedbacks_db
           /\ DOMAIN feedbacks_db' = DOMAIN feedbacks_db
           /\ \A u \in DOMAIN feedbacks_db \ {r.uuid} : feedbacks_db'[u] = feedbacks_db[u]
           /\ feedbacks_db'[r.uuid].feedback_content = r.body.feedback_content
           /\ feedbacks_db'[r.uuid].email_address = feedbacks_db[r.uuid].email_address
           /\ feedbacks_db'[r.uuid].uuid = r.uuid
           /\ last' = Response(r, HTTP_200_OK, {feedbacks_db'[r.uuid]})]_vars

C5_Witness ==
    /\ last.req.op = "PUT"
    /\ last.status = HTTP_200_OK
    /\ last.req.body.feedback_content = Str("Updated")
    /\ last.req.body.email_address = Unset
    /\ last.req.uuid \in DOMAIN feedbacks_db
    /\ feedbacks_db[last.req.uuid].feedback_content = Str("Updated")

C7_EmptyUpdate ==
    [][\A r \in BagToSet(running) :
        /\ Resumes(r)
        /\ r.op = "PUT"
        /\ r.body.feedback_content.tag = "Unset"
        /\ r.body.email_address.tag = "Unset"
        => /\ last' = Response(r, HTTP_400_BAD_REQUEST, {})
           /\ feedbacks_db' = feedbacks_db]_vars

C7_Witness ==
    /\ last.req.op = "PUT"
    /\ last.status = HTTP_400_BAD_REQUEST
    /\ last.req.body = NoBody
    /\ last.req.uuid \in DOMAIN feedbacks_db

(* C8: a Create is answered 201 exactly when its content is a string of 1  *)
(* to 1000 characters and its email is syntactically valid, and then the   *)
(* store gains exactly one record, under an id it did not hold; otherwise  *)
(* it is answered 422 and the store keeps its size and contents.           *)
CreateValid(body) ==
    /\ body.feedback_content.tag = "str"
    /\ Len(body.feedback_content.val) >= 1
    /\ Len(body.feedback_content.val) <= 1000
    /\ body.email_address.tag = "str"
    /\ email_ok(body.email_address.val)

C8_CreateValidation ==
    /\ [](\A r \in BagToSet(pending) : r.op = "POST" => CreateValid(r.body))
    /\ [][Responded /\ last'.req.op = "POST" =>
            IF CreateValid(last'.req.body)
            THEN /\ last'.status = HTTP_201_CREATED
                 /\ Cardinality(DOMAIN feedbacks_db') = Cardinality(DOMAIN feedbacks_db) + 1
                 /\ \E id \in DOMAIN feedbacks_db' \ DOMAIN feedbacks_db :
                        /\ id \notin issued
                        /\ DOMAIN feedbacks_db' = DOMAIN feedbacks_db \cup {id}
                        /\ last'.body = {feedbacks_db'[id]}
                        /\ feedbacks_db'[id].feedback_content = last'.req.body.feedback_content
                 /\ \A u \in DOMAIN feedbacks_db : feedbacks_db'[u] = feedbacks_db[u]
            ELSE /\ last'.status = HTTP_422_UNPROCESSABLE
                 /\ feedbacks_db' = feedbacks_db]_vars

C8_Witness ==
    /\ last.req.op = "POST"
    /\ last.status = HTTP_201_CREATED
    /\ Len(last.req.body.feedback_content.val) = MaxContentLen
    /\ Cardinality(DOMAIN feedbacks_db) = NumSeeds + 1

(* C9: every record is stored under its own id, so no two stored records   *)
(* share an id, and no step changes the id of a record that stays.         *)
C9_KeyIsOwnId ==
    \A u \in DOMAIN feedbacks_db :
        /\ feedbacks_db[u].uuid = u
        /\ \A v \in DOMAIN feedbacks_db : u # v => feedbacks_db[u].uuid # feedbacks_db[v].uuid

(* An Update whose body carried a "uuid" key went through *)
C9_Witness ==
    /\ last.req.op = "PUT"
    /\ last.status = HTTP_200_OK
    /\ last.req.body.uuid # {}
    /\ last.req.uuid \in DOMAIN feedbacks_db
    /\ last.req.uuid \notin last.req.body.uuid
    /\ feedbacks_db[last.req.uuid].uuid = last.req.uuid

(* C10: update_feedback looks the id up before it looks at the body: for   *)
(* an id that is not stored it answers 404 whatever the (well-formed) body *)
(* supplies, and a 400 is only ever the answer to an Update of a stored id. *)
C10_NotFoundBeforeEmpty ==
    [][/\ \A r \in BagToSet(pending) :
            Starts(r) /\ r.op = "PUT" /\ r.uuid \notin DOMAIN feedbacks_db
            => /\ last' = Response(r, HTTP_404_NOT_FOUND, {})
               /\ feedbacks_db' = feedbacks_db
       /\ Responded /\ last'.status = HTTP_400_BAD_REQUEST
            => last'.req.op = "PUT" /\ last'.req.uuid \in DOMAIN feedbacks_db]_vars

C10_Witness ==
    /\ last.req.op = "PUT"
    /\ last.status = HTTP_404_NOT_FOUND
    /\ last.req.body = NoBody
    /\ last.req.uuid \notin DOMAIN feedbacks_db

====
